---------------------------- MODULE Spec2Model ----------------------------
(***************************************************************************)
(* Model of automatic_speech_recognition_with_transformer.ipynb:           *)
(*   - VectorizeChar      (transcript -> fixed-length index list)          *)
(*   - get_data           (pairing of audio paths and transcripts)         *)
(*   - CustomSchedule     (warmup / decay learning-rate schedule)          *)
(*   - DisplayOutputs     (callback printing targets and predictions)      *)
(*   - path_to_audio      (padding / truncation of the spectrogram)        *)
(*   - create_text_ds     (the vectorizer applied to the kept transcripts) *)
(*                                                                         *)
(* Conventions.                                                            *)
(*   A Python str is a sequence of Unicode code points (ord(ch)):          *)
(*   97 = 'a', 66 = 'B', 45 = '-', 35 = '#', 60 = '<', 62 = '>',           *)
(*   33 = '!', 304 = U+0130, 775 = U+0307, 47 = '/', 46 = '.'.             *)
(*   A Python list is a TLA+ sequence: Python position p is TLA+           *)
(*   position p + 1.  Vocabulary indices keep their Python (0-based)       *)
(*   values.                                                               *)
(***************************************************************************)
EXTENDS Integers, Sequences, FiniteSets, TLC

VARIABLES
    vec_max_len,   \* VectorizeChar.max_len
    vec_called,    \* TRUE once VectorizeChar.__call__ has returned
    vec_text,      \* the transcript VectorizeChar.__call__ is given
    vec_out,       \* list returned by VectorizeChar.__call__
    sched,         \* the CustomSchedule object (its six attributes)
    step_dtype,    \* what the caller of CustomSchedule.__call__ passes as
                   \* the step: a float32 tensor (the optimizer) or an int
    sched_rates,   \* sched_rates[k]: the rate CustomSchedule.__call__
                   \* returned for step k - 1
    cb,            \* the DisplayOutputs object (its four attributes)
    fit_epoch,     \* the epoch index fit passes to the next on_epoch_end
    generate_calls, \* the calls model.generate has received, in order
    console,       \* the lines printed so far
    wavs,          \* the list of audio paths given to get_data
    id_to_text,    \* the dict from sample id to transcript
    gd_maxlen,     \* the maxlen given to get_data
    gd_done,       \* TRUE once get_data has returned
    data,          \* the list get_data returned
    audio_x,       \* the normalised spectrogram path_to_audio has computed
                   \* before padding: its number of bins and its frames
    audio_done,    \* TRUE once path_to_audio has returned
    audio_out,     \* the spectrogram path_to_audio returned
    text_ds,       \* the list create_text_ds built from data
    text_ds_done   \* TRUE once create_text_ds has built it

vecVars == <<vec_max_len, vec_called, vec_text, vec_out>>

schedVars == <<sched, step_dtype, sched_rates>>

dispVars == <<cb, fit_epoch, generate_calls, console>>

dataVars == <<wavs, id_to_text, gd_maxlen, gd_done, data>>

audioVars == <<audio_x, audio_done, audio_out>>

textDsVars == <<text_ds, text_ds_done>>

vars == <<vec_max_len, vec_called, vec_text, vec_out,
          sched, step_dtype, sched_rates,
          cb, fit_epoch, generate_calls, console,
          wavs, id_to_text, gd_maxlen, gd_done, data,
          audio_x, audio_done, audio_out, text_ds, text_ds_done>>

---------------------------------------------------------------------------
(* Bounds of the model *)

MaxTextLen == 4      \* longest transcript drawn
MaxMaxLen == 6       \* largest max_len a VectorizeChar is built with
MaxLr == 3           \* learning rates drawn: 1/1000 .. MaxLr/1000
MaxWarmup == 3       \* warmup_epochs drawn: 2 .. MaxWarmup
MaxDecay == 2        \* decay_epochs drawn: 1 .. MaxDecay
MaxStepsPerEpoch == 2 \* steps_per_epoch drawn: 1 .. MaxStepsPerEpoch
ExtraEpochs == 2     \* epochs run after warmup_epochs + decay_epochs
MaxBatch == 2        \* largest number of samples in the displayed batch
MaxEpochs == 11      \* number of epochs fit runs (epochs 0 .. MaxEpochs - 1)
MaxWavs == 3         \* longest list of audio paths drawn
MaxGdMaxLen == 3     \* largest maxlen get_data is given
MaxShortFrames == 30 \* short waveforms drawn: 0 .. MaxShortFrames STFT frames
FrameMargin == 10    \* long waveforms drawn: pad_len - FrameMargin ..
                     \* pad_len + FrameMargin STFT frames
NumBins == 2         \* frequency bins of a frame (129 in the notebook)

(* characters transcripts are drawn from: a b B - ! > U+0130 *)
TextChars == {97, 98, 66, 45, 33, 62, 304}

SeqsUpTo(S, n) == UNION {[1..k -> S] : k \in 0..n}

Transcripts == SeqsUpTo(TextChars, MaxTextLen)

Min(a, b) == IF a <= b THEN a ELSE b

Max(a, b) == IF a >= b THEN a ELSE b

---------------------------------------------------------------------------
(* Python built-ins used by the notebook *)

(* str.lower() of one character.  'A'..'Z' map to 'a'..'z'; U+0130 (capital *)
(* I with dot above) lowercases to the two characters 'i' U+0307; every     *)
(* other character of the model's alphabets is its own lowercase.           *)
LowerChar(ch) ==
    IF ch >= 65 /\ ch <= 90 THEN <<ch + 32>>
    ELSE IF ch = 304 THEN <<105, 775>>
    ELSE <<ch>>

RECURSIVE lower(_)
lower(text) ==
    IF text = <<>> THEN <<>>
    ELSE LowerChar(Head(text)) \o lower(Tail(text))

(* s[:n]  (a negative n counts from the end) *)
SliceTo(s, n) ==
    IF n >= 0 THEN SubSeq(s, 1, Min(n, Len(s)))
    ELSE SubSeq(s, 1, Max(Len(s) + n, 0))

(* [x] * n  (empty when n <= 0) *)
Repeat(x, n) == [k \in 1..Max(n, 0) |-> x]

(* d.get(key, default) *)
DictGet(d, key, default) == IF key \in DOMAIN d THEN d[key] ELSE default

---------------------------------------------------------------------------
(* VectorizeChar *)

(* self.vocab *)
vocab ==
    <<45, 35, 60, 62>> \o [i \in 1..26 |-> i + 96] \o <<32, 46, 44, 63>>

(* self.char_to_idx: for i, ch in enumerate(self.vocab): char_to_idx[ch] = i *)
char_to_idx ==
    [ch \in {vocab[k] : k \in 1..Len(vocab)} |->
        (CHOOSE k \in 1..Len(vocab) :
            vocab[k] = ch /\ \A j \in (k + 1)..Len(vocab) : vocab[j] # ch) - 1]

get_vocabulary == vocab

VectorizeChar_call_NoTruncate(max_len, text0) ==
    LET text1 == lower(text0)
        text3 == <<60>> \o text1 \o <<62>>
        pad_len == max_len - Len(text3)
    IN  [k \in 1..Len(text3) |-> DictGet(char_to_idx, text3[k], 1)]
            \o Repeat(0, pad_len)

VectorizeChar_call_UnknownAsPad(max_len, text0) ==
    LET text1 == lower(text0)
        text2 == SliceTo(text1, max_len - 2)
        text3 == <<60>> \o text2 \o <<62>>
        pad_len == max_len - Len(text3)
    IN  [k \in 1..Len(text3) |-> DictGet(char_to_idx, text3[k], 0)]
            \o Repeat(0, pad_len)

VectorizeChar_call_NoLower(max_len, text0) ==
    LET text2 == SliceTo(text0, max_len - 2)
        text3 == <<60>> \o text2 \o <<62>>
        pad_len == max_len - Len(text3)
    IN  [k \in 1..Len(text3) |-> DictGet(char_to_idx, text3[k], 1)]
            \o Repeat(0, pad_len)

VectorizeChar_call_EndAfterPad(max_len, text0) ==
    LET text1 == lower(text0)
        text2 == SliceTo(text1, max_len - 2)
        text3 == <<60>> \o text2
        pad_len == max_len - Len(text3) - 1
    IN  [k \in 1..Len(text3) |-> DictGet(char_to_idx, text3[k], 1)]
            \o Repeat(0, pad_len) \o <<3>>

(* VectorizeChar.__call__(text) *)
VectorizeChar_call(max_len, text0) ==
    LET text1 == lower(text0)
        text2 == SliceTo(text1, max_len - 2)
        text3 == <<60>> \o text2 \o <<62>>
        pad_len == max_len - Len(text3)
    IN  [k \in 1..Len(text3) |-> DictGet(char_to_idx, text3[k], 1)]
            \o Repeat(0, pad_len)

(* vectorizer(text) *)
Vectorize ==
    /\ ~vec_called
    /\ vec_out' = VectorizeChar_call(vec_max_len, vec_text)
    /\ vec_called' = TRUE
    /\ UNCHANGED <<vec_max_len, vec_text>>
    /\ UNCHANGED <<schedVars, dispVars, dataVars, audioVars, textDsVars>>

---------------------------------------------------------------------------
(* Python float: IEEE 754 binary64.  The attributes of a CustomSchedule    *)
(* are Python floats and + - * / between Python numbers round each result  *)
(* to the nearest float, ties to the even significand.  A float32 tensor   *)
(* is an IEEE 754 binary32: + - * / // with a tensor operand convert the   *)
(* other operand to a float32 tensor and round the result to the nearest   *)
(* float32; tf.math.maximum and tf.math.minimum convert both arguments to  *)
(* float32 tensors and return a float32 tensor.                            *)
(*                                                                         *)
(* A natural number is the sequence of its digits in base LimbBase, the    *)
(* lowest digit first, without a zero top digit (0 is <<>>): a significand *)
(* of 53 bits does not fit a 32-bit integer.                               *)
(*                                                                         *)
(* A float is the record [s, m, e] standing for s * m * 2^e, with s in     *)
(* {1, -1} and m an odd natural number, or m = 0 and e = 0 (s is then the  *)
(* sign of the zero); a float32 is such a record whose value is a          *)
(* binary32.  No operation overflows: the rates of the schedules drawn     *)
(* stay far from the largest float.  The infinities and the NaN a float32  *)
(* division by zero gives are the records Inf(s) and NaN, told from the    *)
(* zero by e.                                                              *)

Abs(x) == IF x < 0 THEN -x ELSE x

LimbBits == 14       \* bits of one digit of a natural number

LimbBase == 2^LimbBits

Precision == 53      \* bits of the significand of a binary64

MinExp == -1074      \* exponent of the smallest positive binary64

Precision32 == 24    \* bits of the significand of a binary32

MinExp32 == -149     \* exponent of the smallest positive binary32

(* digit i of a, 0 above its top digit *)
Limb(a, i) == IF i <= Len(a) THEN a[i] ELSE 0

RECURSIVE NNorm(_)
NNorm(a) ==
    IF a = <<>> \/ a[Len(a)] # 0 THEN a
    ELSE NNorm(SubSeq(a, 1, Len(a) - 1))

(* the natural number k >= 0 *)
RECURSIVE NFromInt(_)
NFromInt(k) ==
    IF k = 0 THEN <<>>
    ELSE <<k % LimbBase>> \o NFromInt(k \div LimbBase)

RECURSIVE NAddFrom(_, _, _, _)
NAddFrom(a, b, i, carry) ==
    IF i > Len(a) /\ i > Len(b)
    THEN (IF carry = 0 THEN <<>> ELSE <<carry>>)
    ELSE LET t == Limb(a, i) + Limb(b, i) + carry
         IN  <<t % LimbBase>> \o NAddFrom(a, b, i + 1, t \div LimbBase)

(* a + b *)
NAdd(a, b) == NNorm(NAddFrom(a, b, 1, 0))

RECURSIVE NSubFrom(_, _, _, _)
NSubFrom(a, b, i, borrow) ==
    IF i > Len(a) THEN <<>>
    ELSE LET t == a[i] - Limb(b, i) - borrow
         IN  IF t < 0
             THEN <<t + LimbBase>> \o NSubFrom(a, b, i + 1, 1)
             ELSE <<t>> \o NSubFrom(a, b, i + 1, 0)

(* a - b, for a >= b *)
NSub(a, b) == NNorm(NSubFrom(a, b, 1, 0))

RECURSIVE NCmpFrom(_, _, _)
NCmpFrom(a, b, i) ==
    IF i = 0 THEN 0
    ELSE IF a[i] < b[i] THEN -1
    ELSE IF a[i] > b[i] THEN 1
    ELSE NCmpFrom(a, b, i - 1)

(* -1, 0, 1 as a < b, a = b, a > b *)
NCmp(a, b) ==
    IF Len(a) < Len(b) THEN -1
    ELSE IF Len(a) > Len(b) THEN 1
    ELSE NCmpFrom(a, b, Len(a))

RECURSIVE NMulSmallFrom(_, _, _, _)
NMulSmallFrom(a, k, i, carry) ==
    IF i > Len(a) THEN NFromInt(carry)
    ELSE LET t == a[i] * k + carry
         IN  <<t % LimbBase>> \o NMulSmallFrom(a, k, i + 1, t \div LimbBase)

(* a * k, for one digit k *)
NMulSmall(a, k) == NNorm(NMulSmallFrom(a, k, 1, 0))

RECURSIVE NMulFrom(_, _, _)
NMulFrom(a, b, j) ==
    IF j > Len(b) THEN <<>>
    ELSE NAdd(NMulSmall(a, b[j]), <<0>> \o NMulFrom(a, b, j + 1))

(* a * b *)
NMul(a, b) == NNorm(NMulFrom(a, b, 1))

(* a * 2^n *)
NShl(a, n) ==
    IF a = <<>> THEN <<>>
    ELSE [i \in 1..(n \div LimbBits) |-> 0] \o NMulSmall(a, 2^(n % LimbBits))

RECURSIVE NDivSmallFrom(_, _, _)
NDivSmallFrom(a, k, i) ==
    IF i > Len(a) THEN [q |-> <<>>, r |-> 0]
    ELSE LET hi == NDivSmallFrom(a, k, i + 1)
             t == hi.r * LimbBase + a[i]
         IN  [q |-> <<t \div k>> \o hi.q, r |-> t % k]

(* quotient and remainder of a by k, for one digit k > 0 *)
NDivSmall(a, k) ==
    LET d == NDivSmallFrom(a, k, 1)
    IN  [q |-> NNorm(d.q), r |-> NFromInt(d.r)]

(* a \div 2^n *)
NShr(a, n) ==
    IF n \div LimbBits >= Len(a) THEN <<>>
    ELSE NDivSmall(SubSeq(a, n \div LimbBits + 1, Len(a)), 2^(n % LimbBits)).q

RECURSIVE BitLenSmall(_)
BitLenSmall(x) == IF x = 0 THEN 0 ELSE 1 + BitLenSmall(x \div 2)

(* number of bits of a *)
NBitLen(a) ==
    IF a = <<>> THEN 0
    ELSE LimbBits * (Len(a) - 1) + BitLenSmall(a[Len(a)])

(* bit i of a (bit 1 is the lowest) *)
NBit(a, i) ==
    (Limb(a, (i - 1) \div LimbBits + 1) \div 2^((i - 1) % LimbBits)) % 2

RECURSIVE TrailingZerosSmall(_)
TrailingZerosSmall(x) == IF x % 2 = 1 THEN 0 ELSE 1 + TrailingZerosSmall(x \div 2)

RECURSIVE NTrailingZerosFrom(_, _)
NTrailingZerosFrom(a, i) ==
    IF a[i] # 0 THEN LimbBits * (i - 1) + TrailingZerosSmall(a[i])
    ELSE NTrailingZerosFrom(a, i + 1)

(* number of zero bits below the lowest one bit of a > 0 *)
NTrailingZeros(a) == NTrailingZerosFrom(a, 1)

(* the largest digit t in lo..hi with b * t <= a, given b * lo <= a *)
RECURSIVE NDigit(_, _, _, _)
NDigit(a, b, lo, hi) ==
    IF lo = hi THEN lo
    ELSE LET mid == (lo + hi + 1) \div 2
         IN  IF NCmp(NMulSmall(b, mid), a) <= 0
             THEN NDigit(a, b, mid, hi)
             ELSE NDigit(a, b, lo, mid - 1)

RECURSIVE NDivModFrom(_, _, _)
NDivModFrom(a, b, i) ==
    IF i > Len(a) THEN [q |-> <<>>, r |-> <<>>]
    ELSE LET hi == NDivModFrom(a, b, i + 1)
             t == NNorm(<<a[i]>> \o hi.r)
             digit == NDigit(t, b, 0, LimbBase - 1)
         IN  [q |-> <<digit>> \o hi.q, r |-> NSub(t, NMulSmall(b, digit))]

(* quotient and remainder of a by b > 0 *)
NDivMod(a, b) ==
    IF Len(b) = 1 THEN NDivSmall(a, b[1])
    ELSE LET d == NDivModFrom(a, b, 1)
         IN  [q |-> NNorm(d.q), r |-> d.r]

(* the record of s * M * 2^E *)
Canon(s, M, E) ==
    IF M = <<>> THEN [s |-> s, m |-> <<>>, e |-> 0]
    ELSE LET t == NTrailingZeros(M)
         IN  [s |-> s, m |-> NShr(M, t), e |-> E + t]

(* a + b without rounding *)
XAdd(a, b) ==
    LET e == IF a.e <= b.e THEN a.e ELSE b.e
        A == NShl(a.m, a.e - e)
        B == NShl(b.m, b.e - e)
    IN  IF a.s = b.s THEN Canon(a.s, NAdd(A, B), e)
        ELSE IF NCmp(A, B) = 0 THEN Canon(1, <<>>, 0)
        ELSE IF NCmp(A, B) > 0 THEN Canon(a.s, NSub(A, B), e)
        ELSE Canon(b.s, NSub(B, A), e)

XNeg(a) == [a EXCEPT !.s = -a.s]

(* a - b without rounding *)
XSub(a, b) == XAdd(a, XNeg(b))

(* a * b without rounding *)
XMul(a, b) == Canon(a.s * b.s, NMul(a.m, b.m), a.e + b.e)

(* the number nearest to x among those with a significand of precision    *)
(* bits and an exponent of minexp or more, ties to the even significand:   *)
(* the bits of x.m below its highest precision bits, or below 2^minexp,    *)
(* are dropped and the rest is rounded                                     *)
RoundTo(x, precision, minexp) ==
    LET over == NBitLen(x.m) - precision
        under == minexp - x.e
        d == IF over >= under THEN over ELSE under
    IN  IF d <= 0 THEN x
        ELSE LET K == NShr(x.m, d)
                 R == NSub(x.m, NShl(K, d))
                 c == NCmp(NShl(R, 1), NShl(<<1>>, d))
                 up == c > 0 \/ (c = 0 /\ NBit(K, 1) = 1)
             IN  Canon(x.s, IF up THEN NAdd(K, <<1>>) ELSE K, x.e + d)

(* the Python float nearest to x *)
Round(x) == RoundTo(x, Precision, MinExp)

(* the float32 a Python float becomes as a tensor *)
Float32(x) == RoundTo(x, Precision32, MinExp32)

(* float(k) of a Python int k: exact for the ints of the model *)
FromInt(k) == Canon(IF k < 0 THEN -1 ELSE 1, NFromInt(Abs(k)), 0)

FAdd(a, b) == Round(XAdd(a, b))

FSub(a, b) == Round(XSub(a, b))

FMul(a, b) == Round(XMul(a, b))

(* a / b before rounding, for b # 0: the quotient is taken to 55 bits or   *)
(* more and the remainder adds one low bit, so that rounding sees on which *)
(* side of a tie it lies                                                   *)
XDiv(a, b) ==
    IF a.m = <<>> THEN Canon(a.s * b.s, <<>>, 0)
    ELSE LET need == NBitLen(b.m) + Precision + 2 - NBitLen(a.m)
             k == IF need > 0 THEN need ELSE 0
             d == NDivMod(NShl(a.m, k), b.m)
             M == NAdd(NShl(d.q, 1), IF d.r = <<>> THEN <<>> ELSE <<1>>)
         IN  Canon(a.s * b.s, M, a.e - b.e - k - 1)

(* a / b of two Python floats *)
FDiv(a, b) ==
    IF b.m = <<>> THEN "ZeroDivisionError" ELSE Round(XDiv(a, b))

(* the float a literal of value n / d reads as: the float nearest to it *)
Float(n, d) == FDiv(FromInt(n), FromInt(d))

(* a <= b, for finite a and b *)
FLe(a, b) ==
    LET x == XSub(a, b)
    IN  x.m = <<>> \/ x.s = -1

(* the float32 infinity of sign s, and the float32 NaN *)
Inf(s) == [s |-> s, m |-> <<>>, e |-> 1]

NaN == [s |-> 1, m |-> <<>>, e |-> 2]

IsInf(x) == x.m = <<>> /\ x.e = 1

IsNaN(x) == x.m = <<>> /\ x.e = 2

(* a + b, a * b of two finite float32 *)
Add32(a, b) == Float32(XAdd(a, b))

Mul32(a, b) == Float32(XMul(a, b))

(* a - b of two float32, b possibly an infinity or the NaN *)
Sub32(a, b) ==
    IF IsNaN(b) THEN NaN
    ELSE IF IsInf(b) THEN Inf(-b.s)
    ELSE Float32(XSub(a, b))

(* a / b of two finite float32: a division by zero does not raise *)
Div32(a, b) ==
    IF b.m = <<>> THEN (IF a.m = <<>> THEN NaN ELSE Inf(a.s * b.s))
    ELSE Float32(XDiv(a, b))

(* the largest whole number not above a finite x *)
Floor(x) ==
    IF x.m = <<>> \/ x.e >= 0 THEN x
    ELSE LET N == NShr(x.m, -x.e)
         IN  IF x.s = 1 THEN Canon(1, N, 0) ELSE Canon(-1, NAdd(N, <<1>>), 0)

(* a > b of two float32, either possibly an infinity or the NaN *)
Greater32(a, b) ==
    IF IsNaN(a) \/ IsNaN(b) THEN FALSE
    ELSE IF IsInf(a) THEN a.s = 1 /\ ~(IsInf(b) /\ b.s = 1)
    ELSE IF IsInf(b) THEN b.s = -1
    ELSE ~FLe(a, b)

(* The operands of calculate_lr and __call__: a Python int, a Python float *)
(* or a float32 tensor, each with its value.                               *)
PyInt(n) == [dtype |-> "int", v |-> n]

PyFloat(x) == [dtype |-> "float", v |-> x]

Tensor(x) == [dtype |-> "float32", v |-> x]

(* float(a) of a Python number: exact for the ints of the model *)
AsFloat(a) == IF a.dtype = "int" THEN FromInt(a.v) ELSE a.v

(* the float32 an operand is as a tensor *)
AsFloat32(a) == IF a.dtype = "float32" THEN a.v ELSE Float32(AsFloat(a))

(* a + b, a - b, a * b: float32 when one operand is a tensor, else the     *)
(* Python int or float                                                     *)
Add(a, b) ==
    IF a.dtype = "float32" \/ b.dtype = "float32"
    THEN Tensor(Add32(AsFloat32(a), AsFloat32(b)))
    ELSE IF a.dtype = "int" /\ b.dtype = "int" THEN PyInt(a.v + b.v)
    ELSE PyFloat(FAdd(AsFloat(a), AsFloat(b)))

Sub(a, b) ==
    IF a.dtype = "float32" \/ b.dtype = "float32"
    THEN Tensor(Sub32(AsFloat32(a), AsFloat32(b)))
    ELSE IF a.dtype = "int" /\ b.dtype = "int" THEN PyInt(a.v - b.v)
    ELSE PyFloat(FSub(AsFloat(a), AsFloat(b)))

Mul(a, b) ==
    IF a.dtype = "float32" \/ b.dtype = "float32"
    THEN Tensor(Mul32(AsFloat32(a), AsFloat32(b)))
    ELSE IF a.dtype = "int" /\ b.dtype = "int" THEN PyInt(a.v * b.v)
    ELSE PyFloat(FMul(AsFloat(a), AsFloat(b)))

(* a / b, for b # 0 when both are Python numbers *)
TrueDiv(a, b) ==
    IF a.dtype = "float32" \/ b.dtype = "float32"
    THEN Tensor(Div32(AsFloat32(a), AsFloat32(b)))
    ELSE PyFloat(FDiv(AsFloat(a), AsFloat(b)))

(* a // b for b > 0: of two Python ints, or of a float32 tensor and an     *)
(* int, the floor of the float32 quotient                                  *)
FloorDiv(a, b) ==
    IF a.dtype = "float32" \/ b.dtype = "float32"
    THEN Tensor(Float32(Floor(Div32(AsFloat32(a), AsFloat32(b)))))
    ELSE PyInt(a.v \div b.v)

(* tf.math.minimum(a, b): both arguments become float32 tensors, the       *)
(* result is a < b ? a : b                                                 *)
FMinimum(a, b) ==
    LET x == AsFloat32(a)
        y == AsFloat32(b)
    IN  Tensor(IF Greater32(y, x) THEN x ELSE y)

(* tf.math.maximum(a, b): both arguments become float32 tensors, the       *)
(* result is a > b ? a : b                                                 *)
FMaximum(a, b) ==
    LET x == AsFloat32(a)
        y == AsFloat32(b)
    IN  Tensor(IF Greater32(x, y) THEN x ELSE y)

---------------------------------------------------------------------------
(* CustomSchedule *)

calculate_lr_NoClamp(self, epoch) ==
    IF self.warmup_epochs - 1 = 0
           \/ (epoch.dtype # "float32" /\ self.decay_epochs = 0)
    THEN "ZeroDivisionError"
    ELSE LET init_lr == PyFloat(self.init_lr)
             lr_after_warmup == PyFloat(self.lr_after_warmup)
             final_lr == PyFloat(self.final_lr)
             warmup_epochs == PyInt(self.warmup_epochs)
             decay_epochs == PyInt(self.decay_epochs)
             warmup_lr ==
                 Add(init_lr,
                     Mul(TrueDiv(Sub(lr_after_warmup, init_lr),
                                 Sub(warmup_epochs, PyInt(1))),
                         epoch))
             decay_lr ==
                 Sub(lr_after_warmup,
                     TrueDiv(Mul(Sub(epoch, warmup_epochs),
                                 Sub(lr_after_warmup, final_lr)),
                             decay_epochs))
         IN  FMinimum(warmup_lr, decay_lr)

(* CustomSchedule.calculate_lr(epoch), for epoch a Python int or a float32 *)
(* tensor: the float32 tensor returned, or "ZeroDivisionError" when a      *)
(* division of two Python numbers raises                                   *)
calculate_lr(self, epoch) ==
    IF self.warmup_epochs - 1 = 0
           \/ (epoch.dtype # "float32" /\ self.decay_epochs = 0)
    THEN "ZeroDivisionError"
    ELSE LET init_lr == PyFloat(self.init_lr)
             lr_after_warmup == PyFloat(self.lr_after_warmup)
             final_lr == PyFloat(self.final_lr)
             warmup_epochs == PyInt(self.warmup_epochs)
             decay_epochs == PyInt(self.decay_epochs)
             warmup_lr ==
                 Add(init_lr,
                     Mul(TrueDiv(Sub(lr_after_warmup, init_lr),
                                 Sub(warmup_epochs, PyInt(1))),
                         epoch))
             decay_lr ==
                 FMaximum(
                     final_lr,
                     Sub(lr_after_warmup,
                         TrueDiv(Mul(Sub(epoch, warmup_epochs),
                                     Sub(lr_after_warmup, final_lr)),
                                 decay_epochs)))
         IN  FMinimum(warmup_lr, decay_lr)

CustomSchedule_call_PerStep(self, step) == calculate_lr(self, step)

(* CustomSchedule.__call__(step) *)
CustomSchedule_call(self, step) ==
    LET epoch == FloorDiv(step, PyInt(self.steps_per_epoch))
    IN  calculate_lr(self, epoch)

(* CustomSchedule(): the defaults of __init__ *)
DefaultSchedule ==
    [init_lr |-> Float(1, 100000),
     lr_after_warmup |-> Float(1, 1000),
     final_lr |-> Float(1, 100000),
     warmup_epochs |-> 15,
     decay_epochs |-> 85,
     steps_per_epoch |-> 203]

(* CustomSchedule(0.0, 1.75 + 17 * 2^-24, 0.0, 14, 1, 1): lr_after_warmup  *)
(* lies halfway between two float32, and the warmup ramp computed in       *)
(* Python floats for epoch 13 is lr_after_warmup + 2^-52                   *)
TieSchedule ==
    [init_lr |-> Float(0, 1),
     lr_after_warmup |-> Float(29360145, 16777216),
     final_lr |-> Float(0, 1),
     warmup_epochs |-> 14,
     decay_epochs |-> 1,
     steps_per_epoch |-> 1]

(* the schedules drawn: the default rates and epochs and those of          *)
(* TieSchedule with a short epoch, and every combination of small          *)
(* parameters; warmup_epochs >= 2 and decay_epochs >= 1, so that neither   *)
(* division of calculate_lr is by zero                                     *)
Schedules ==
    {[DefaultSchedule EXCEPT !.steps_per_epoch = n] : n \in 1..MaxStepsPerEpoch}
    \cup
    {[TieSchedule EXCEPT !.steps_per_epoch = n] : n \in 1..MaxStepsPerEpoch}
    \cup
    [init_lr : {Float(k, 1000) : k \in 1..MaxLr},
     lr_after_warmup : {Float(k, 1000) : k \in 1..MaxLr},
     final_lr : {Float(k, 1000) : k \in 1..MaxLr},
     warmup_epochs : 2..MaxWarmup,
     decay_epochs : 1..MaxDecay,
     steps_per_epoch : 1..MaxStepsPerEpoch]

(* the step a caller passes: Adam(learning_rate) calls learning_rate with  *)
(* its iteration count cast to a float32 tensor; a direct call passes a    *)
(* Python int                                                              *)
StepDtypes == {"float32", "int"}

(* the step number n as the caller passes it *)
StepOf(dtype, n) ==
    IF dtype = "float32" THEN Tensor(Float32(FromInt(n))) ELSE PyInt(n)

(* learning_rate(step) for the next of the steps 0, 1, 2, ...; sched_rates *)
(* gets the value of the float32 tensor returned                           *)
ScheduleCall ==
    /\ Len(sched_rates) \div sched.steps_per_epoch
           <= sched.warmup_epochs + sched.decay_epochs + ExtraEpochs
    /\ sched.warmup_epochs - 1 # 0 /\ sched.decay_epochs # 0
    /\ sched_rates' =
           Append(sched_rates,
                  CustomSchedule_call(sched,
                                      StepOf(step_dtype, Len(sched_rates))).v)
    /\ UNCHANGED <<sched, step_dtype>>
    /\ UNCHANGED <<vecVars, dispVars, dataVars, audioVars, textDsVars>>

---------------------------------------------------------------------------
(* DisplayOutputs *)

(* target rows of the held-out batch: "<ab>" padded, "<a-b>"               *)
TargetRows == {<<2, 4, 5, 3, 0>>, <<2, 4, 0, 5, 3>>}

(* batch = next(iter(val_ds)): "source" holds one spectrogram per sample   *)
(* (named by its number), "target" one vectorized transcript per sample    *)
Batches ==
    UNION {[source : {[i \in 1..bs |-> i]}, target : [1..bs -> TargetRows]]
              : bs \in 1..MaxBatch}

(* rows model.generate may return: an end token followed by more indices,  *)
(* no end token, an end token first and a second one later                 *)
PredRows == {<<2, 4, 3, 5>>, <<2, 4, 5, 4>>, <<3, 0, 3, 4>>}

Displays_OnFifthEpoch(epoch) == (epoch + 1) % 5 = 0

(* on_epoch_end: "if epoch % 5 != 0: return" lets these epochs through *)
Displays(epoch) == ~(epoch % 5 # 0)

(* "".join([self.idx_to_char[_] for _ in row]) *)
JoinChars(self, row) == [k \in 1..Len(row) |-> self.idx_to_char[row[k] + 1]]

(* text.replace('-', '') *)
ReplaceDash(text) == SelectSeq(text, LAMBDA ch : ch # 45)

RECURSIVE Prediction_NoBreak(_, _)
Prediction_NoBreak(self, row) ==
    IF row = <<>> THEN <<>>
    ELSE <<self.idx_to_char[Head(row) + 1]>> \o Prediction_NoBreak(self, Tail(row))

(* the loop "for idx in preds[i, :]" with its break *)
RECURSIVE Prediction(_, _)
Prediction(self, row) ==
    IF row = <<>> THEN <<>>
    ELSE IF Head(row) = self.target_end_token_idx
         THEN <<self.idx_to_char[Head(row) + 1]>>
         ELSE <<self.idx_to_char[Head(row) + 1]>> \o Prediction(self, Tail(row))

(* the two print calls for sample i; 10 is the "\n" the second one ends in *)
PrintSample(self, target, preds, i) ==
    << [label |-> "target:     ",
        text |-> ReplaceDash(JoinChars(self, target[i]))],
       [label |-> "prediction: ",
        text |-> Prediction(self, preds[i]) \o <<10>>] >>

(* the loop "for i in range(bs)" from sample i on *)
RECURSIVE PrintBatch(_, _, _, _, _)
PrintBatch(self, target, preds, i, bs) ==
    IF i > bs THEN <<>>
    ELSE PrintSample(self, target, preds, i)
            \o PrintBatch(self, target, preds, i + 1, bs)

on_epoch_end_self_KeepsPreds(self, preds) ==
    [self EXCEPT !.batch.target = preds]

(* the callback object after on_epoch_end: no attribute is assigned *)
on_epoch_end_self(self, preds) == self

(* DisplayOutputs.on_epoch_end(epoch), called by fit at the end of epoch    *)
(* fit_epoch; preds is what model.generate returns                         *)
OnEpochEnd ==
    /\ fit_epoch < MaxEpochs
    /\ fit_epoch' = fit_epoch + 1
    /\ IF ~Displays(fit_epoch)
       THEN UNCHANGED <<cb, generate_calls, console>>
       ELSE LET source == cb.batch.source
                target == cb.batch.target
                bs == Len(source)
            IN  \E preds \in [1..bs -> PredRows] :
                    /\ generate_calls' =
                           Append(generate_calls,
                                  [epoch |-> fit_epoch,
                                   source |-> source,
                                   start_token_idx |-> cb.target_start_token_idx,
                                   preds |-> preds])
                    /\ console' = console \o PrintBatch(cb, target, preds, 1, bs)
                    /\ cb' = on_epoch_end_self(cb, preds)
    /\ UNCHANGED <<vecVars, schedVars, dataVars, audioVars, textDsVars>>

---------------------------------------------------------------------------
(* get_data *)

(* audio paths drawn: "d/a.w", "b.w", "d/b.x.w", "e.d/c.w" *)
Paths ==
    {<<100, 47, 97, 46, 119>>,
     <<98, 46, 119>>,
     <<100, 47, 98, 46, 120, 46, 119>>,
     <<101, 46, 100, 47, 99, 46, 119>>}

(* the sample ids of the metadata: "a", "b", "c" *)
Ids == {<<97>>, <<98>>, <<99>>}

(* transcripts of the metadata: "", "h", "hi" *)
MetaTexts == {<<>>, <<104>>, <<104, 105>>}

(* s.split(sep) for a one-character sep: the pieces between the seps *)
RECURSIVE Split(_, _)
Split(s, sep) ==
    IF \A k \in 1..Len(s) : s[k] # sep THEN <<s>>
    ELSE LET p == CHOOSE k \in 1..Len(s) :
                      s[k] = sep /\ \A j \in 1..(k - 1) : s[j] # sep
         IN  <<SubSeq(s, 1, p - 1)>> \o Split(SubSeq(s, p + 1, Len(s)), sep)

(* w.split("/")[-1].split(".")[0] *)
IdOfPath(w) ==
    LET parts == Split(w, 47)
    IN  Split(parts[Len(parts)], 46)[1]

RECURSIVE get_data_KeepsMaxlen(_, _, _)
get_data_KeepsMaxlen(ws, texts, maxlen) ==
    IF ws = <<>> THEN <<>>
    ELSE LET w == Head(ws)
             id == IdOfPath(w)
         IN  (IF Len(texts[id]) <= maxlen
              THEN <<[audio |-> w, text |-> texts[id]]>>
              ELSE <<>>) \o get_data_KeepsMaxlen(Tail(ws), texts, maxlen)

(* get_data(wavs, id_to_text, maxlen): the loop over wavs *)
RECURSIVE get_data(_, _, _)
get_data(ws, texts, maxlen) ==
    IF ws = <<>> THEN <<>>
    ELSE LET w == Head(ws)
             id == IdOfPath(w)
         IN  (IF Len(texts[id]) < maxlen
              THEN <<[audio |-> w, text |-> texts[id]]>>
              ELSE <<>>) \o get_data(Tail(ws), texts, maxlen)

(* data = get_data(wavs, id_to_text, maxlen) *)
GetData ==
    /\ ~gd_done
    /\ data' = get_data(wavs, id_to_text, gd_maxlen)
    /\ gd_done' = TRUE
    /\ UNCHANGED <<wavs, id_to_text, gd_maxlen>>
    /\ UNCHANGED <<vecVars, schedVars, dispVars, audioVars, textDsVars>>

---------------------------------------------------------------------------
(* path_to_audio.  A spectrogram is [bins, rows]: rows is the list of its  *)
(* time frames, each a list of bins values.  Lines 328-336 (decode_wav,    *)
(* stft, pow, normalisation) produce x; the values of its frames stand for *)
(* the floats they compute.                                                *)

(* pad_len = 2754 *)
pad_len == 2754

(* frame k of a waveform whose normalised frames are all different, and of *)
(* one whose normalised frames are all zero                                *)
FrameOf(kind, k) ==
    [b \in 1..NumBins |-> IF kind = "ramp" THEN NumBins * k + b ELSE 0]

(* the numbers of STFT frames drawn: few, and about pad_len *)
FrameCounts ==
    (0..MaxShortFrames) \cup ((pad_len - FrameMargin)..(pad_len + FrameMargin))

(* the normalised spectrograms drawn *)
Spectrograms ==
    {[bins |-> NumBins, rows |-> [k \in 1..n |-> FrameOf(kind, k)]]
        : n \in FrameCounts, kind \in {"ramp", "zero"}}

(* a spectrogram with no frame *)
NoSpectrogram == [bins |-> NumBins, rows |-> <<>>]

(* tf.pad(x, paddings, "CONSTANT") of a 2-D tensor: paddings[1] are the    *)
(* zero rows put before and after, paddings[2] the zero columns            *)
TfPad(x, paddings) ==
    LET bins == paddings[2][1] + x.bins + paddings[2][2]
        widen(row) == Repeat(0, paddings[2][1]) \o row \o Repeat(0, paddings[2][2])
    IN  [bins |-> bins,
         rows |-> Repeat(Repeat(0, bins), paddings[1][1])
                     \o [k \in 1..Len(x.rows) |-> widen(x.rows[k])]
                     \o Repeat(Repeat(0, bins), paddings[1][2])]

(* x[:n, :] *)
SliceRows(x, n) == [bins |-> x.bins, rows |-> SliceTo(x.rows, n)]

path_to_audio_PadBefore(x) ==
    LET paddings == << <<pad_len, 0>>, <<0, 0>> >>
    IN  SliceRows(TfPad(x, paddings), pad_len)

(* path_to_audio from "audio_len = tf.shape(x)[0]" on: pad, then truncate *)
path_to_audio(x) ==
    LET paddings == << <<0, pad_len>>, <<0, 0>> >>
    IN  SliceRows(TfPad(x, paddings), pad_len)

(* path_to_audio(path), for a waveform whose normalised spectrogram is     *)
(* audio_x                                                                 *)
PathToAudio ==
    /\ ~audio_done
    /\ audio_out' = path_to_audio(audio_x)
    /\ audio_done' = TRUE
    /\ UNCHANGED audio_x
    /\ UNCHANGED <<vecVars, schedVars, dispVars, dataVars, textDsVars>>

---------------------------------------------------------------------------
(* create_text_ds *)

(* text_ds = [vectorizer(t) for t in texts], texts = [_["text"] for _ in data] *)
create_text_ds(max_len, records) ==
    [k \in 1..Len(records) |-> VectorizeChar_call(max_len, records[k].text)]

(* create_text_ds(data), with the global vectorizer *)
CreateTextDs ==
    /\ gd_done
    /\ ~text_ds_done
    /\ text_ds' = create_text_ds(vec_max_len, data)
    /\ text_ds_done' = TRUE
    /\ UNCHANGED <<vecVars, schedVars, dispVars, dataVars, audioVars>>

---------------------------------------------------------------------------
(* Specifications, one per component.  Each starts right after its         *)
(* component is constructed; the other components are not in use (no       *)
(* transcript, no rate asked for, an empty batch, no paths).               *)

(* a DisplayOutputs over an empty batch *)
NoCallback ==
    [batch |-> [source |-> <<>>, target |-> <<>>],
     target_start_token_idx |-> 2,
     target_end_token_idx |-> 3,
     idx_to_char |-> get_vocabulary]

(* vectorizer = VectorizeChar(max_len), and the transcript it will be given *)
VecInit ==
    /\ vec_max_len \in 0..MaxMaxLen
    /\ vec_text \in Transcripts
    /\ vec_called = FALSE
    /\ vec_out = <<>>
    /\ sched = DefaultSchedule /\ step_dtype = "float32"
    /\ sched_rates = <<>>
    /\ cb = NoCallback /\ fit_epoch = 0
    /\ generate_calls = <<>> /\ console = <<>>
    /\ wavs = <<>> /\ id_to_text = [id \in Ids |-> <<>>]
    /\ gd_maxlen = 0 /\ gd_done = FALSE /\ data = <<>>
    /\ audio_x = NoSpectrogram /\ audio_done = FALSE
    /\ audio_out = NoSpectrogram
    /\ text_ds = <<>> /\ text_ds_done = FALSE

VecNext == Vectorize

SpecVec == VecInit /\ [][VecNext]_vars

(* learning_rate = CustomSchedule(...), and the kind of step its caller    *)
(* passes                                                                  *)
SchedInit ==
    /\ sched \in Schedules
    /\ step_dtype \in StepDtypes
    /\ sched_rates = <<>>
    /\ vec_max_len = 0 /\ vec_text = <<>>
    /\ vec_called = FALSE /\ vec_out = <<>>
    /\ cb = NoCallback /\ fit_epoch = 0
    /\ generate_calls = <<>> /\ console = <<>>
    /\ wavs = <<>> /\ id_to_text = [id \in Ids |-> <<>>]
    /\ gd_maxlen = 0 /\ gd_done = FALSE /\ data = <<>>
    /\ audio_x = NoSpectrogram /\ audio_done = FALSE
    /\ audio_out = NoSpectrogram
    /\ text_ds = <<>> /\ text_ds_done = FALSE

SchedNext == ScheduleCall

SpecSched == SchedInit /\ [][SchedNext]_vars

(* display_cb = DisplayOutputs(batch, idx_to_char, 2, 3) *)
DispInit ==
    /\ cb \in [batch : Batches,
                target_start_token_idx : {2},
                target_end_token_idx : {3},
                idx_to_char : {get_vocabulary}]
    /\ fit_epoch = 0
    /\ generate_calls = <<>>
    /\ console = <<>>
    /\ vec_max_len = 0 /\ vec_text = <<>>
    /\ vec_called = FALSE /\ vec_out = <<>>
    /\ sched = DefaultSchedule /\ step_dtype = "float32"
    /\ sched_rates = <<>>
    /\ wavs = <<>> /\ id_to_text = [id \in Ids |-> <<>>]
    /\ gd_maxlen = 0 /\ gd_done = FALSE /\ data = <<>>
    /\ audio_x = NoSpectrogram /\ audio_done = FALSE
    /\ audio_out = NoSpectrogram
    /\ text_ds = <<>> /\ text_ds_done = FALSE

DispNext == OnEpochEnd

SpecDisp == DispInit /\ [][DispNext]_vars

(* wavs = glob(...), id_to_text read from metadata.csv (every id of a      *)
(* path has a transcript), and the maxlen of the call                      *)
DataInit ==
    /\ wavs \in SeqsUpTo(Paths, MaxWavs)
    /\ id_to_text \in [Ids -> MetaTexts]
    /\ gd_maxlen \in 0..MaxGdMaxLen
    /\ gd_done = FALSE
    /\ data = <<>>
    /\ vec_max_len = 0 /\ vec_text = <<>>
    /\ vec_called = FALSE /\ vec_out = <<>>
    /\ sched = DefaultSchedule /\ step_dtype = "float32"
    /\ sched_rates = <<>>
    /\ cb = NoCallback /\ fit_epoch = 0
    /\ generate_calls = <<>> /\ console = <<>>
    /\ audio_x = NoSpectrogram /\ audio_done = FALSE
    /\ audio_out = NoSpectrogram
    /\ text_ds = <<>> /\ text_ds_done = FALSE

DataNext == GetData

SpecData == DataInit /\ [][DataNext]_vars

(* path_to_audio is given a path; audio_x is the normalised spectrogram of *)
(* its waveform                                                            *)
AudioInit ==
    /\ audio_x \in Spectrograms
    /\ audio_done = FALSE
    /\ audio_out = NoSpectrogram
    /\ vec_max_len = 0 /\ vec_text = <<>>
    /\ vec_called = FALSE /\ vec_out = <<>>
    /\ sched = DefaultSchedule /\ step_dtype = "float32"
    /\ sched_rates = <<>>
    /\ cb = NoCallback /\ fit_epoch = 0
    /\ generate_calls = <<>> /\ console = <<>>
    /\ wavs = <<>> /\ id_to_text = [id \in Ids |-> <<>>]
    /\ gd_maxlen = 0 /\ gd_done = FALSE /\ data = <<>>
    /\ text_ds = <<>> /\ text_ds_done = FALSE

AudioNext == PathToAudio

SpecAudio == AudioInit /\ [][AudioNext]_vars

(* max_target_len is chosen; data = get_data(wavs, id_to_text,             *)
(* max_target_len) and vectorizer = VectorizeChar(max_target_len) use it   *)
PipeInit ==
    /\ wavs \in SeqsUpTo(Paths, MaxWavs)
    /\ id_to_text \in [Ids -> MetaTexts]
    /\ gd_maxlen \in 0..MaxGdMaxLen
    /\ vec_max_len = gd_maxlen
    /\ gd_done = FALSE
    /\ data = <<>>
    /\ text_ds = <<>> /\ text_ds_done = FALSE
    /\ vec_text = <<>> /\ vec_called = FALSE /\ vec_out = <<>>
    /\ sched = DefaultSchedule /\ step_dtype = "float32"
    /\ sched_rates = <<>>
    /\ cb = NoCallback /\ fit_epoch = 0
    /\ generate_calls = <<>> /\ console = <<>>
    /\ audio_x = NoSpectrogram /\ audio_done = FALSE
    /\ audio_out = NoSpectrogram

PipeNext == GetData \/ CreateTextDs

SpecPipe == PipeInit /\ [][PipeNext]_vars

---------------------------------------------------------------------------
(* Claims about VectorizeChar *)

(* every character not in the vocabulary replaced by the unknown symbol '#' *)
C3_InVocabOrUnknown(text) ==
    [k \in 1..Len(text) |->
        IF \E j \in 1..Len(vocab) : vocab[j] = text[k] THEN text[k] ELSE 35]

(* C1: built with max_len >= 2, the returned list has length exactly      *)
(* max_len, starts with the start-token index 2, and holds only integers  *)
(* in [0, 34).                                                            *)
C1_FixedLengthValidIndices ==
    (vec_called /\ vec_max_len >= 2) =>
        /\ Len(vec_out) = vec_max_len
        /\ vec_out[1] = 2
        /\ \A k \in 1..Len(vec_out) : vec_out[k] \in 0..33

(* a truncated transcript holding an upper-case, an unknown and a          *)
(* two-character-lowercase character has been vectorized                   *)
C1_Witness ==
    /\ vec_called
    /\ vec_max_len = 4
    /\ vec_text = <<66, 304, 33, 97>>
    /\ vec_out = <<2, 5, 12, 3>>

(* The reference sequence of C2, built from the claim's steps *)
C2_VocabList ==
    <<45, 35, 60, 62,
      97, 98, 99, 100, 101, 102, 103, 104, 105, 106, 107, 108, 109,
      110, 111, 112, 113, 114, 115, 116, 117, 118, 119, 120, 121, 122,
      32, 46, 44, 63>>

C2_PositionOf(ch) ==
    IF \E p \in 1..Len(C2_VocabList) : C2_VocabList[p] = ch
    THEN (CHOOSE p \in 1..Len(C2_VocabList) : C2_VocabList[p] = ch) - 1
    ELSE 1

RECURSIVE C2_PadTo(_, _)
C2_PadTo(s, n) == IF Len(s) >= n THEN s ELSE C2_PadTo(Append(s, 0), n)

C2_Reference(max_len, text) ==
    LET low == lower(text)
        kept == [k \in 1..Min(Max(max_len - 2, 0), Len(low)) |-> low[k]]
        wrapped == <<60>> \o kept \o <<62>>
        mapped == [k \in 1..Len(wrapped) |-> C2_PositionOf(wrapped[k])]
    IN  C2_PadTo(mapped, max_len)

(* C2 as claimed (read over max_len >= 2, where its steps are defined):    *)
(* the result is the reference sequence, and "ab" with max_len = 6 gives   *)
(* [2,5,6,3,0,0].                                                          *)
C2_Original ==
    (vec_called /\ vec_max_len >= 2) =>
        /\ vec_out = C2_Reference(vec_max_len, vec_text)
        /\ (vec_max_len = 6 /\ vec_text = <<97, 98>>)
               => vec_out = <<2, 5, 6, 3, 0, 0>>

(* C2 (amended): for max_len >= 2 the result is the reference sequence     *)
(* (lowercase, keep the first max_len - 2 characters, wrap in '<' '>',     *)
(* map through the vocabulary with unknown -> 1, pad with 0 to max_len);   *)
(* "ab" with max_len = 6 gives [2,4,5,3,0,0].                              *)
C2_ReferenceSequence ==
    (vec_called /\ vec_max_len >= 2) =>
        /\ vec_out = C2_Reference(vec_max_len, vec_text)
        /\ (vec_max_len = 6 /\ vec_text = <<97, 98>>)
               => vec_out = <<2, 4, 5, 3, 0, 0>>

(* "ab" has been vectorized with max_len = 6 *)
C2_Witness ==
    /\ vec_called
    /\ vec_max_len = 6
    /\ vec_text = <<97, 98>>
    /\ vec_out = <<2, 4, 5, 3, 0, 0>>

(* Decoding of C3: drop the trailing padding of index 0, drop the two      *)
(* wrapper tokens, map every index to get_vocabulary()[index].             *)
RECURSIVE C3_NonPadPrefix(_)
C3_NonPadPrefix(out) ==
    IF out # <<>> /\ out[Len(out)] = 0
    THEN C3_NonPadPrefix(SubSeq(out, 1, Len(out) - 1))
    ELSE out

C3_Decode(out) ==
    LET body == SubSeq(C3_NonPadPrefix(out), 2, Len(C3_NonPadPrefix(out)) - 1)
    IN  [k \in 1..Len(body) |-> get_vocabulary[body[k] + 1]]

(* C3 as claimed: the bound is on the length of the transcript itself *)
C3_Original ==
    (vec_called /\ Len(vec_text) <= vec_max_len - 2) =>
        C3_Decode(vec_out) = C3_InVocabOrUnknown(lower(vec_text))

(* C3 (amended): when the LOWERCASED transcript has length <= max_len - 2, *)
(* decoding the output without its trailing padding and its two wrapper    *)
(* tokens gives the lowercased transcript, each out-of-vocabulary          *)
(* character appearing as '#'.                                             *)
C3_RoundTrip ==
    (vec_called /\ Len(lower(vec_text)) <= vec_max_len - 2) =>
        C3_Decode(vec_out) = C3_InVocabOrUnknown(lower(vec_text))

(* a fitting transcript with an upper-case letter, a '-' (whose index is   *)
(* the pad index), an unknown character and a '>' has been vectorized      *)
C3_Witness ==
    /\ vec_called
    /\ vec_max_len = 6
    /\ vec_text = <<66, 45, 33, 62>>
    /\ vec_out = <<2, 5, 0, 1, 3, 3>>
    /\ C3_Decode(vec_out) = <<98, 45, 35, 62>>

(* Python position of the end token claimed by C4, for a text length n *)
C4_EndPos(n, max_len) == Min(n, max_len - 2) + 1

(* C4 as claimed: the position is computed from len(transcript) *)
C4_Original ==
    (vec_called /\ vec_max_len >= 2) =>
        LET p == C4_EndPos(Len(vec_text), vec_max_len) + 1
        IN  /\ p \in 1..Len(vec_out)
            /\ vec_out[p] = 3
            /\ \A k \in (p + 1)..Len(vec_out) : vec_out[k] = 0

(* C4 (amended): for max_len >= 2 the end-token index 3 is at position     *)
(* min(len(transcript.lower()), max_len - 2) + 1, every later position     *)
(* holds the pad index 0, so the end token precedes the padding also when  *)
(* the transcript was truncated.                                           *)
C4_EndTokenBeforePadding ==
    (vec_called /\ vec_max_len >= 2) =>
        LET p == C4_EndPos(Len(lower(vec_text)), vec_max_len) + 1
        IN  /\ p \in 1..Len(vec_out)
            /\ vec_out[p] = 3
            /\ \A k \in (p + 1)..Len(vec_out) : vec_out[k] = 0

(* a truncated transcript: the end token is the last element *)
C4_Witness ==
    /\ vec_called
    /\ vec_max_len = 4
    /\ vec_text = <<97, 98, 97>>
    /\ vec_out = <<2, 4, 5, 3>>

---------------------------------------------------------------------------
(* Claims about CustomSchedule *)

(* the epoch of the step whose rate is sched_rates[k] *)
C5_EpochOfRate(k) == (k - 1) \div sched.steps_per_epoch

(* the parameter ranges C5 names *)
C5_Pre ==
    /\ FLe(sched.init_lr, sched.lr_after_warmup)
    /\ FLe(sched.final_lr, sched.lr_after_warmup)
    /\ sched.warmup_epochs >= 2
    /\ sched.decay_epochs >= 1

(* rates and counts far from the ends of the float32 range: init_lr and    *)
(* final_lr not negative, lr_after_warmup between 2^-64 and 2^64,          *)
(* warmup_epochs, decay_epochs, steps_per_epoch and the step below 2^24    *)
C5_InRange ==
    /\ FLe(FromInt(0), sched.init_lr)
    /\ FLe(FromInt(0), sched.final_lr)
    /\ FLe([s |-> 1, m |-> <<1>>, e |-> -64], sched.lr_after_warmup)
    /\ FLe(sched.lr_after_warmup, [s |-> 1, m |-> <<1>>, e |-> 64])
    /\ sched.warmup_epochs < 2^24
    /\ sched.decay_epochs < 2^24
    /\ sched.steps_per_epoch < 2^24
    /\ Len(sched_rates) <= 2^24

(* the rounding allowance of C5 and C6: 2^-20 * lr_after_warmup *)
C5_Tolerance ==
    IF sched.lr_after_warmup.m = <<>> THEN sched.lr_after_warmup
    ELSE [sched.lr_after_warmup EXCEPT !.e = @ - 20]

(* a <= b + 2^-20 * lr_after_warmup *)
C5_LeToRounding(a, b) == FLe(a, XAdd(b, C5_Tolerance))

(* the shape C5 states, exactly, for the rate returned last and the one    *)
(* before it: sched_rates only grows, so every rate is the last one in     *)
(* some state.  A rate is a float32; init_lr, lr_after_warmup and final_lr *)
(* are compared with it as the float32 they become as tensors.             *)
C5_Shape ==
    LET k == Len(sched_rates)
    IN  k >= 1 =>
            /\ FLe(Float32(sched.final_lr), sched_rates[k])
            /\ C5_EpochOfRate(k) = 0
                   => sched_rates[k] = Float32(sched.init_lr)
            /\ C5_EpochOfRate(k) = sched.warmup_epochs
                   => sched_rates[k] = Float32(sched.lr_after_warmup)
            /\ (k > 1 /\ C5_EpochOfRate(k) <= sched.warmup_epochs)
                   => FLe(sched_rates[k - 1], sched_rates[k])
            /\ (k > 1 /\ C5_EpochOfRate(k - 1) >= sched.warmup_epochs
                      /\ C5_EpochOfRate(k)
                             <= sched.warmup_epochs + sched.decay_epochs)
                   => FLe(sched_rates[k], sched_rates[k - 1])

(* the same shape with the rounding allowance, for the rate returned last  *)
(* and every rate before it                                                *)
C5_ShapeToRounding ==
    LET k == Len(sched_rates)
        last == sched_rates[k]
        peak == Float32(sched.lr_after_warmup)
    IN  k >= 1 =>
            /\ FLe(Float32(sched.final_lr), last)
            /\ C5_EpochOfRate(k) = 0 => last = Float32(sched.init_lr)
            /\ C5_EpochOfRate(k) = sched.warmup_epochs
                   => C5_LeToRounding(peak, last)
            /\ C5_EpochOfRate(k) >= sched.warmup_epochs => FLe(last, peak)
            /\ C5_EpochOfRate(k) <= sched.warmup_epochs
                   => \A j \in 1..(k - 1) :
                          C5_LeToRounding(sched_rates[j], last)
            /\ C5_EpochOfRate(k) <= sched.warmup_epochs + sched.decay_epochs
                   => \A j \in 1..(k - 1) :
                          C5_EpochOfRate(j) >= sched.warmup_epochs
                              => C5_LeToRounding(last, sched_rates[j])

(* C5 as claimed: with init_lr <= lr_after_warmup, final_lr <=             *)
(* lr_after_warmup, warmup_epochs >= 2, decay_epochs >= 1 the rate rises   *)
(* from init_lr to lr_after_warmup over epochs 0..warmup_epochs, falls     *)
(* over the decay window and is never below final_lr.                      *)
C5_Original == C5_Pre => C5_Shape

(* C5 (amended): for parameters that also have 0 <= final_lr <= init_lr    *)
(* and are far from the ends of the float32 range, the rate is init_lr at  *)
(* epoch 0, never below final_lr, at epoch warmup_epochs not above         *)
(* lr_after_warmup and at most 2^-20 * lr_after_warmup below it, and not   *)
(* above lr_after_warmup from there on (the three as float32); over        *)
(* epochs 0..warmup_epochs a later rate is never more than                 *)
(* 2^-20 * lr_after_warmup below an earlier one, and over epochs           *)
(* warmup_epochs..warmup_epochs + decay_epochs never more than that above  *)
(* an earlier one.                                                         *)
C5_WarmupDecayShape ==
    (C5_Pre /\ C5_InRange /\ FLe(sched.final_lr, sched.init_lr))
        => C5_ShapeToRounding

(* TieSchedule has been called with Python int steps through epoch 15:     *)
(* the rate of epoch 13 is 1.750001072883606, one float32 above the rate   *)
(* 1.7500009536743164 = float32(lr_after_warmup) of epoch 14, so the rate  *)
(* falls inside the warmup window, by less than the allowance              *)
C5_Witness ==
    /\ sched = TieSchedule
    /\ step_dtype = "int"
    /\ Len(sched_rates) = 16
    /\ sched_rates[1] = Float32(sched.init_lr)
    /\ sched_rates[14] = [s |-> 1, m |-> <<9, 896>>, e |-> -23]
    /\ sched_rates[15] = [s |-> 1, m |-> <<1, 112>>, e |-> -20]
    /\ sched_rates[15] = Float32(sched.lr_after_warmup)
    /\ ~FLe(sched_rates[14], sched_rates[15])
    /\ C5_LeToRounding(sched_rates[14], sched_rates[15])
    /\ sched_rates[16] = Float32(sched.final_lr)

(* x * 2^n *)
C6_Scale(x, n) == IF x.m = <<>> THEN x ELSE [x EXCEPT !.e = x.e + n]

(* the absolute value of x *)
C6_Abs(x) == [x EXCEPT !.s = 1]

(* the two ramps of C6 as lines between their end points, in exact         *)
(* arithmetic: warmup_epochs - 1 times the warmup ramp, which is init_lr   *)
(* at epoch 0 and lr_after_warmup at epoch warmup_epochs - 1 ...           *)
C6_WarmupRamp(self, epoch) ==
    XAdd(XMul(FromInt(self.warmup_epochs - 1 - epoch), self.init_lr),
         XMul(FromInt(epoch), self.lr_after_warmup))

(* ... and decay_epochs times the decay ramp, which is lr_after_warmup at  *)
(* epoch warmup_epochs, final_lr at epoch warmup_epochs + decay_epochs and *)
(* stays at final_lr from there on                                         *)
C6_DecayRamp(self, epoch) ==
    LET line ==
            XAdd(XMul(FromInt(self.warmup_epochs + self.decay_epochs - epoch),
                      self.lr_after_warmup),
                 XMul(FromInt(epoch - self.warmup_epochs), self.final_lr))
        floor == XMul(FromInt(self.decay_epochs), self.final_lr)
    IN  IF FLe(line, floor) THEN floor ELSE line

(* (warmup_epochs - 1) * decay_epochs times the smaller of the two ramps *)
C6_MinOfRamps(self, epoch) ==
    LET w == XMul(FromInt(self.decay_epochs), C6_WarmupRamp(self, epoch))
        d == XMul(FromInt(self.warmup_epochs - 1), C6_DecayRamp(self, epoch))
    IN  IF FLe(w, d) THEN w ELSE d

(* rate is the smaller of the two ramps at epoch, to within                *)
(* 2^-20 * lr_after_warmup                                                 *)
C6_Near(rate, self, epoch) ==
    LET n == FromInt((self.warmup_epochs - 1) * self.decay_epochs)
    IN  FLe(C6_Abs(XSub(XMul(n, rate), C6_MinOfRamps(self, epoch))),
            XMul(n, C6_Scale(self.lr_after_warmup, -20)))

(* what C6 states, exactly but for the minimum of the ramps, for the rate  *)
(* returned last and the one before it; a rate is a float32, and init_lr,  *)
(* lr_after_warmup and final_lr are compared with it as the float32 they   *)
(* become as tensors                                                       *)
C6_Shape ==
    LET k == Len(sched_rates)
    IN  k >= 1 =>
            /\ (k > 1 /\ C5_EpochOfRate(k - 1) = C5_EpochOfRate(k))
                   => sched_rates[k - 1] = sched_rates[k]
            /\ C6_Near(sched_rates[k], sched, C5_EpochOfRate(k))
            /\ k = 1 => sched_rates[k] = Float32(sched.init_lr)
            /\ C5_EpochOfRate(k) = sched.warmup_epochs
                   => sched_rates[k] = Float32(sched.lr_after_warmup)
            /\ FLe(sched_rates[k], Float32(sched.lr_after_warmup))
            /\ C5_EpochOfRate(k) >= sched.warmup_epochs + sched.decay_epochs
                   => sched_rates[k] = Float32(sched.final_lr)

(* the same with the rounding allowance *)
C6_ShapeToRounding ==
    LET k == Len(sched_rates)
        last == sched_rates[k]
        peak == Float32(sched.lr_after_warmup)
        final == Float32(sched.final_lr)
    IN  k >= 1 =>
            /\ (k > 1 /\ C5_EpochOfRate(k - 1) = C5_EpochOfRate(k))
                   => sched_rates[k - 1] = last
            /\ C6_Near(last, sched, C5_EpochOfRate(k))
            /\ k = 1 => last = Float32(sched.init_lr)
            /\ C5_EpochOfRate(k) = sched.warmup_epochs
                   => C5_LeToRounding(peak, last)
            /\ C5_EpochOfRate(k) >= sched.warmup_epochs => FLe(last, peak)
            /\ C5_LeToRounding(last, peak)
            /\ C5_EpochOfRate(k) >= sched.warmup_epochs + sched.decay_epochs
                   => /\ C5_LeToRounding(last, final)
                      /\ C5_LeToRounding(final, last)

(* C6 as claimed, for every schedule: the rate depends on the step only    *)
(* through its epoch, is the minimum of the two ramps (to within           *)
(* rounding), is init_lr at step 0, lr_after_warmup at epoch               *)
(* warmup_epochs, never above lr_after_warmup, and final_lr from epoch     *)
(* warmup_epochs + decay_epochs on.                                        *)
C6_Original == C6_Shape

(* C6 (amended): for schedules with 0 <= init_lr <= lr_after_warmup,       *)
(* 0 <= final_lr <= lr_after_warmup, warmup_epochs >= 2 and                *)
(* decay_epochs >= 1 that are far from the ends of the float32 range, the  *)
(* rate depends on the step only through its epoch, is the minimum of the  *)
(* two ramps to within 2^-20 * lr_after_warmup, is init_lr at step 0, at   *)
(* epoch warmup_epochs is not above lr_after_warmup and at most            *)
(* 2^-20 * lr_after_warmup below it, is not above lr_after_warmup from     *)
(* there on and never more than 2^-20 * lr_after_warmup above it before,   *)
(* and from epoch warmup_epochs + decay_epochs on is within                *)
(* 2^-20 * lr_after_warmup of final_lr (the three as float32).             *)
C6_MinOfWarmupAndDecay == (C5_Pre /\ C5_InRange) => C6_ShapeToRounding

(* the default rates and epochs with two steps per epoch have been called  *)
(* with float32 tensor steps past the decay window: both steps of epoch 0  *)
(* get float32(init_lr), both of epoch 14 get 0.0009999999310821295, both  *)
(* of epoch 15 float32(lr_after_warmup), both of epoch 100 =               *)
(* warmup_epochs + decay_epochs get 1.00000761449337e-05, which is not     *)
(* float32(final_lr) = 9.999999747378752e-06 but within the allowance of   *)
(* it, and the first of epoch 101 gets float32(final_lr)                   *)
C6_Witness ==
    /\ sched = [DefaultSchedule EXCEPT !.steps_per_epoch = 2]
    /\ step_dtype = "float32"
    /\ Len(sched_rates) = 203
    /\ sched_rates[1] = Float32(sched.init_lr)
    /\ sched_rates[2] = sched_rates[1]
    /\ sched_rates[29] = [s |-> 1, m |-> <<2359, 262>>, e |-> -32]
    /\ sched_rates[30] = sched_rates[29]
    /\ sched_rates[31] = Float32(sched.lr_after_warmup)
    /\ sched_rates[32] = sched_rates[31]
    /\ sched_rates[201] = [s |-> 1, m |-> <<5091, 1>>, e |-> -31]
    /\ sched_rates[202] = sched_rates[201]
    /\ sched_rates[201] # Float32(sched.final_lr)
    /\ C5_LeToRounding(sched_rates[201], Float32(sched.final_lr))
    /\ sched_rates[203] = [s |-> 1, m |-> <<12651, 167>>, e |-> -38]
    /\ sched_rates[203] = Float32(sched.final_lr)

---------------------------------------------------------------------------
(* Claims about DisplayOutputs *)

(* the epochs below n that are multiples of 5 *)
C7_DisplayEpochs(n) == {e \in 0..(n - 1) : e % 5 = 0}

(* C7: after on_epoch_end has been called for epochs 0 .. fit_epoch - 1,   *)
(* model.generate was called, and one target and one prediction line per   *)
(* sample were printed, exactly at the epochs 0, 5, 10, ... and at no      *)
(* other epoch.                                                            *)
C7_DisplaysEveryFifthEpoch ==
    /\ Len(generate_calls) = Cardinality(C7_DisplayEpochs(fit_epoch))
    /\ \A k \in 1..Len(generate_calls) : generate_calls[k].epoch = 5 * (k - 1)
    /\ Len(console) = 2 * Len(cb.batch.source) * Len(generate_calls)

(* eleven epochs have ended: displays at epochs 0, 5 and 10 *)
C7_Witness ==
    /\ fit_epoch = 11
    /\ Len(generate_calls) = 3
    /\ generate_calls[3].epoch = 10
    /\ Len(cb.batch.source) = 2
    /\ Len(console) = 12

(* decoding of an index row through idx_to_char *)
C8_Decode(row) == [k \in 1..Len(row) |-> cb.idx_to_char[row[k] + 1]]

(* the row up to and including its first end token, the whole row when it  *)
(* holds none                                                              *)
C8_CutAtFirstEnd(row) ==
    IF \E p \in 1..Len(row) : row[p] = cb.target_end_token_idx
    THEN SubSeq(row, 1,
                CHOOSE p \in 1..Len(row) :
                    /\ row[p] = cb.target_end_token_idx
                    /\ \A q \in 1..(p - 1) : row[q] # cb.target_end_token_idx)
    ELSE row

(* C8: the lines printed by the k-th display are, for every sample i in    *)
(* batch order, one target line (the decoded full target row without the   *)
(* pad character '-') followed by one prediction line (the decoded         *)
(* predicted row cut at its first end token, whole when it has none).      *)
C8_PrintedTargetsAndPredictions ==
    LET bs == Len(cb.batch.source)
    IN  \A k \in 1..Len(generate_calls) : \A i \in 1..bs :
            LET tline == console[2 * bs * (k - 1) + 2 * (i - 1) + 1]
                pline == console[2 * bs * (k - 1) + 2 * (i - 1) + 2]
                shown == SubSeq(pline.text, 1, Len(pline.text) - 1)
            IN  /\ tline.label = "target:     "
                /\ pline.label = "prediction: "
                /\ tline.text =
                       SelectSeq(C8_Decode(cb.batch.target[i]), LAMBDA ch : ch # 45)
                /\ shown = C8_Decode(C8_CutAtFirstEnd(generate_calls[k].preds[i]))
                /\ pline.text[Len(pline.text)] = 10

(* a display of a two-sample batch whose first predicted row has indices   *)
(* after its end token and whose second has no end token: "<a>" and "<aba" *)
C8_Witness ==
    /\ Len(generate_calls) = 1
    /\ cb.batch.target = << <<2, 4, 0, 5, 3>>, <<2, 4, 5, 3, 0>> >>
    /\ generate_calls[1].preds = << <<2, 4, 3, 5>>, <<2, 4, 5, 4>> >>
    /\ console =
          << [label |-> "target:     ", text |-> <<60, 97, 98, 62>>],
             [label |-> "prediction: ", text |-> <<60, 97, 62, 10>>],
             [label |-> "target:     ", text |-> <<60, 97, 98, 62>>],
             [label |-> "prediction: ", text |-> <<60, 97, 98, 97, 10>>] >>

(* C9: no on_epoch_end call, displaying or silent, changes an attribute of *)
(* the callback (batch, target_start_token_idx, target_end_token_idx,      *)
(* idx_to_char), and every model.generate call gets the batch's source and *)
(* the start-token index of the callback.                                  *)
C9_CallbackStateUnchanged ==
    /\ [][cb' = cb]_vars
    /\ [](\A k \in 1..Len(generate_calls) :
              /\ generate_calls[k].source = cb.batch.source
              /\ generate_calls[k].start_token_idx = cb.target_start_token_idx)

(* silent and displaying calls have both happened, twice *)
C9_Witness ==
    /\ fit_epoch = 7
    /\ Len(generate_calls) = 2
    /\ cb.batch.target = << <<2, 4, 5, 3, 0>> >>
    /\ cb.target_end_token_idx = 3

---------------------------------------------------------------------------
(* Claims about get_data *)

(* the sample id of each path drawn: the file name up to its first '.' *)
C10_IdOf(w) ==
    CASE w = <<100, 47, 97, 46, 119>> -> <<97>>
      [] w = <<98, 46, 119>> -> <<98>>
      [] w = <<100, 47, 98, 46, 120, 46, 119>> -> <<98>>
      [] w = <<101, 46, 100, 47, 99, 46, 119>> -> <<99>>

(* the positions of wavs whose transcript is shorter than maxlen *)
C10_Kept ==
    {i \in 1..Len(wavs) : Len(id_to_text[C10_IdOf(wavs[i])]) < gd_maxlen}

(* the k-th of them *)
C10_Nth(k) ==
    CHOOSE i \in C10_Kept : Cardinality({j \in C10_Kept : j < i}) = k - 1

C10_Returned ==
    /\ Len(data) = Cardinality(C10_Kept)
    /\ \A k \in 1..Len(data) :
           /\ data[k] = [audio |-> wavs[C10_Nth(k)],
                         text |-> id_to_text[C10_IdOf(wavs[C10_Nth(k)])]]
           /\ Len(data[k].text) < gd_maxlen

(* C10: get_data returns, in the order of wavs, exactly one record         *)
(* {audio: w, text: id_to_text[id(w)]} for each path whose transcript is   *)
(* shorter than maxlen and none for the others, and leaves wavs and        *)
(* id_to_text as they were.                                                *)
C10_GetDataFilters ==
    /\ [](gd_done => C10_Returned)
    /\ [][wavs' = wavs /\ id_to_text' = id_to_text]_vars

(* "d/b.x.w", "d/a.w", "b.w" with a -> "hi", b -> "h" and maxlen 2: the    *)
(* two paths of id b are kept, in order; a, whose transcript has length    *)
(* maxlen, is dropped                                                      *)
C10_Witness ==
    /\ gd_done
    /\ gd_maxlen = 2
    /\ wavs = << <<100, 47, 98, 46, 120, 46, 119>>,
                 <<100, 47, 97, 46, 119>>,
                 <<98, 46, 119>> >>
    /\ id_to_text[<<97>>] = <<104, 105>>
    /\ id_to_text[<<98>>] = <<104>>
    /\ data = << [audio |-> <<100, 47, 98, 46, 120, 46, 119>>, text |-> <<104>>],
                 [audio |-> <<98, 46, 119>>, text |-> <<104>>] >>

---------------------------------------------------------------------------
(* Claims about path_to_audio *)

(* C11: for a waveform of n >= 0 STFT frames the returned spectrogram has  *)
(* exactly 2754 frames: for n <= 2754 the n normalised frames in order     *)
(* followed by 2754 - n all-zero frames, for n > 2754 the first 2754       *)
(* normalised frames; the number of frequency bins is unchanged.           *)
C11_FixedFrameCount ==
    audio_done =>
        LET n == Len(audio_x.rows)
        IN  /\ Len(audio_out.rows) = 2754
            /\ \A k \in 1..2754 :
                   IF k <= n
                   THEN audio_out.rows[k] = audio_x.rows[k]
                   ELSE audio_out.rows[k] = [b \in 1..audio_x.bins |-> 0]
            /\ audio_out.bins = audio_x.bins
            /\ \A k \in 1..2754 : Len(audio_out.rows[k]) = audio_x.bins

(* a waveform of 2755 different frames has been cut to its first 2754 *)
C11_Witness ==
    /\ audio_done
    /\ Len(audio_x.rows) = 2755
    /\ audio_x.rows[1] # audio_x.rows[2]
    /\ Len(audio_out.rows) = 2754
    /\ audio_out.rows[2754] = audio_x.rows[2754]

---------------------------------------------------------------------------
(* Claim about get_data and VectorizeChar used with the same limit *)

(* C12: with the filter and the vectorizer built from the same             *)
(* max_target_len, the vectorized target of every kept sample holds, after *)
(* the start token, one index for every character of the transcript and    *)
(* then the end token: no character of a kept transcript is lost.          *)
C12_NoKeptTranscriptTruncated ==
    (text_ds_done /\ vec_max_len = gd_maxlen) =>
        /\ Len(text_ds) = Len(data)
        /\ \A k \in 1..Len(data) :
               LET t == data[k].text
                   row == text_ds[k]
               IN  /\ Len(row) >= Len(t) + 2
                   /\ row[1] = 2
                   /\ \A j \in 1..Len(t) : row[j + 1] = C2_PositionOf(t[j])
                   /\ row[Len(t) + 2] = 3

=============================================================================
